---- MODULE Spec2Model ----
(***************************************************************************)
(* A model of text-me's conversion core (src/src/convert.py): the address  *)
(* normaliser norm, the two timestamp codecs, the attachment codec and the *)
(* read/write methods of the platforms Android and Windows10.              *)
(* FileSpec reads backup files that write did not produce; RunSpec models  *)
(* the process-wide attribute Message.do_norm of the earlier src/textme.py.*)
(*                                                                         *)
(* Representation.  A Python str is a sequence of one-character strings;   *)
(* None is the one-element sequence None below, which no str equals since  *)
(* its element is not a single character.  A Python int that can exceed    *)
(* 32 bits (seconds, milliseconds, FILETIME ticks) is a record             *)
(* [hi, lo] denoting hi * 10^9 + lo with 0 <= lo < 10^9; the arithmetic    *)
(* on it is exact, as Python's is.  A document is the element tree that    *)
(* ElementTree.write serialises and ET.parse reads back.                   *)
(***************************************************************************)
EXTENDS Integers, Sequences, FiniteSets, TLC

VARIABLES
    messages,   \* the Message list handed to the first write
    kwargs,     \* the keyword arguments of write: [you |-> phone], or none
    ops,        \* the reads and writes performed so far, in order
    vals,       \* what each of them produced: a document or a Message list
    status,     \* "ok", or the exception that ended the run
    addr,       \* norm: the argument
    once,       \* norm(addr)
    twice,      \* norm(norm(addr))
    secs,       \* timestamp codec: the seconds of the instant
    nanos,      \* timestamp codec: its nanoseconds
    wire,       \* the platform's integer for the instant (ms or ticks)
    back,       \* the <<timestamp, timestamp_ns>> decoded from wire
    rewire,     \* the integer that back encodes to
    do_norm,    \* textme.py: the class attribute Message.do_norm
    pc          \* position of the norm, codec and file runs

vars == <<messages, kwargs, ops, vals, status, addr, once, twice,
          secs, nanos, wire, back, rewire, do_norm, pc>>

-----------------------------------------------------------------------------
(* Bounds of the model *)

MaxMsgs == 2
MaxRecipients == 2
MaxAttachments == 2
MaxOps == 3
MaxAddrLen == 2
MaxDelta == 2

-----------------------------------------------------------------------------
(* Python values *)

None == <<"None">>

Digits == {"0", "1", "2", "3", "4", "5", "6", "7", "8", "9"}

DigitSeq == <<"0", "1", "2", "3", "4", "5", "6", "7", "8", "9">>

\* ord() of the characters the model's strings are made of
Ord(c) ==
    CASE c = " " -> 32 [] c = "(" -> 40 [] c = ")" -> 41 [] c = "+" -> 43
      [] c = "-" -> 45
      [] c = "0" -> 48 [] c = "1" -> 49 [] c = "2" -> 50 [] c = "3" -> 51
      [] c = "4" -> 52 [] c = "5" -> 53 [] c = "6" -> 54 [] c = "7" -> 55
      [] c = "8" -> 56 [] c = "9" -> 57
      [] c = "a" -> 97 [] c = "h" -> 104 [] c = "i" -> 105 [] c = "~" -> 126

OrdChars == {" ", "(", ")", "+", "-", "a", "h", "i", "~"} \cup Digits

Chr(n) == CHOOSE c \in OrdChars : Ord(c) = n

IsChr(n) == \E c \in OrdChars : Ord(c) = n

Min(a, b) == IF a < b THEN a ELSE b

\* s[:n] in place of s[-n:]: the first n characters
FirstN(s, n) == SubSeq(s, 1, Min(n, Len(s)))

\* s[1:] in place of s[-n:]: the leading character dropped
DropFirst(s, n) == IF s = <<>> THEN s ELSE Tail(s)

\* s[-n:] for n > 0
LastN(s, n) == SubSeq(s, Len(s) - Min(n, Len(s)) + 1, Len(s))

\* x or y, for x a str or None
Or(x, y) == IF x = None \/ x = <<>> THEN y ELSE x

-----------------------------------------------------------------------------
(* Exact integers beyond 32 bits *)

Base == 10^9

BigNorm(h, l) == [hi |-> h + (l \div Base), lo |-> l % Base]

BigOfInt(n) == BigNorm(0, n)

BigAdd(a, b) == BigNorm(a.hi + b.hi, a.lo + b.lo)

BigSub(a, b) == BigNorm(a.hi - b.hi, a.lo - b.lo)

\* a * 10^k, 0 <= k <= 9
BigMulPow10(a, k) ==
    LET p == 10^k
        q == 10^(9 - k)
    IN  [hi |-> a.hi * p + (a.lo \div q), lo |-> (a.lo % q) * p]

\* a // 10^k (floor), 0 <= k <= 9
BigDivPow10(a, k) ==
    LET p == 10^k
        q == 10^(9 - k)
    IN  [hi |-> a.hi \div p, lo |-> (a.hi % p) * q + (a.lo \div p)]

\* a % 10^k, 0 <= k <= 9: a plain integer
BigModPow10(a, k) == a.lo % (10^k)

BigNeg(a) == BigSub(BigOfInt(0), a)

RECURSIVE NatStr(_)
\* str(n) for a natural number n
NatStr(n) ==
    IF n < 10 THEN <<DigitSeq[n + 1]>>
    ELSE NatStr(n \div 10) \o <<DigitSeq[(n % 10) + 1]>>

RECURSIVE ZeroPad(_, _)
ZeroPad(s, w) == IF Len(s) >= w THEN s ELSE ZeroPad(<<"0">> \o s, w)

\* str(a) for a >= 0
BigNatStr(a) ==
    IF a.hi = 0 THEN NatStr(a.lo)
    ELSE NatStr(a.hi) \o ZeroPad(NatStr(a.lo), 9)

\* str(a): the decimal numeral, with a leading "-" when negative
BigStr(a) == IF a.hi < 0 THEN <<"-">> \o BigNatStr(BigNeg(a)) ELSE BigNatStr(a)

DigitVal(c) == CHOOSE d \in 0..9 : DigitSeq[d + 1] = c

RECURSIVE IntOfDigits(_)
\* the number that at most nine digits denote
IntOfDigits(s) ==
    IF s = <<>> THEN 0
    ELSE 10 * IntOfDigits(SubSeq(s, 1, Len(s) - 1)) + DigitVal(s[Len(s)])

\* the number a numeral of at most eighteen digits denotes: its last nine
\* digits are lo, those before them hi
NatOfStr(s) ==
    IF Len(s) <= 9 THEN [hi |-> 0, lo |-> IntOfDigits(s)]
    ELSE [hi |-> IntOfDigits(SubSeq(s, 1, Len(s) - 9)),
          lo |-> IntOfDigits(SubSeq(s, Len(s) - 8, Len(s)))]

\* int(s) for a decimal numeral s
BigOfStr(s) ==
    IF s # <<>> /\ s[1] = "-" THEN BigNeg(NatOfStr(Tail(s))) ELSE NatOfStr(s)

-----------------------------------------------------------------------------
(* norm *)

NormClass == Digits \cup {"(", ")", " ", "-", "+"}

\* re.fullmatch(r"[0-9() \-+]*", a)
FullMatch(a) == \A i \in 1..Len(a) : a[i] \in NormClass

\* "".join(filter(str.isdigit, a))
FilterDigits(a) == SelectSeq(a, LAMBDA c : c \in Digits)

norm(a) ==
    IF a # None /\ FullMatch(a) THEN LastN(FilterDigits(a), 10) ELSE a

-----------------------------------------------------------------------------
(* The timestamp codecs *)

\* 11644473600, the seconds from 1601-01-01 to 1970-01-01
WindowsEpochOffset == [hi |-> 11, lo |-> 644473600]

\* message.timestamp * 1000 + message.timestamp_ns // 1000000
AndroidTimestampMs(timestamp, timestamp_ns) ==
    BigAdd(BigMulPow10(timestamp, 3), BigOfInt(timestamp_ns \div 1000000))

\* int(date) // 1000
AndroidTimestamp(ms) == BigDivPow10(ms, 3)

\* int(date) % 1000 * (10**3): microseconds in place of nanoseconds
AndroidTimestampUs(ms) == BigModPow10(ms, 3) * (10^3)

\* int(date) % 1000 * (10**6)
AndroidTimestampNs(ms) == BigModPow10(ms, 3) * (10^6)

\* (message.timestamp + 11644473600) * (10**7) + message.timestamp_ns // 100
Win10Ticks(timestamp, timestamp_ns) ==
    BigAdd(BigMulPow10(BigAdd(timestamp, WindowsEpochOffset), 7),
           BigOfInt(timestamp_ns \div 100))

\* int(text) // 10**7, the epoch offset not taken off
Win10TimestampNoOffset(ticks) == BigDivPow10(ticks, 7)

\* int(text) // 10**7 - 11644473600
Win10Timestamp(ticks) == BigSub(BigDivPow10(ticks, 7), WindowsEpochOffset)

\* int(text) % 10**7, the ticks not scaled to nanoseconds
Win10TimestampTicks(ticks) == BigModPow10(ticks, 7)

\* int(text) % 10**7 * 100
Win10TimestampNs(ticks) == BigModPow10(ticks, 7) * 100

-----------------------------------------------------------------------------
(* base64 and UTF-16LE.  Bytes are integers 0..255. *)

B64Chars ==
    <<"A", "B", "C", "D", "E", "F", "G", "H", "I", "J", "K", "L", "M", "N", "O", "P",
      "Q", "R", "S", "T", "U", "V", "W", "X", "Y", "Z", "a", "b", "c", "d", "e", "f",
      "g", "h", "i", "j", "k", "l", "m", "n", "o", "p", "q", "r", "s", "t", "u", "v",
      "w", "x", "y", "z", "0", "1", "2", "3", "4", "5", "6", "7", "8", "9", "+", "/">>

B64Chr(i) == B64Chars[i + 1]

B64Index(c) == CHOOSE i \in 0..63 : B64Chars[i + 1] = c

IsB64Char(c) == \E i \in 0..63 : B64Chars[i + 1] = c

RECURSIVE B64Encode(_)
\* base64.b64encode(b).decode()
B64Encode(b) ==
    IF Len(b) = 0 THEN <<>>
    ELSE IF Len(b) = 1 THEN
        LET n == b[1] * 16
        IN  <<B64Chr(n \div 64), B64Chr(n % 64), "=", "=">>
    ELSE IF Len(b) = 2 THEN
        LET n == (b[1] * 256 + b[2]) * 4
        IN  <<B64Chr(n \div 4096), B64Chr((n \div 64) % 64), B64Chr(n % 64), "=">>
    ELSE
        LET n == b[1] * 65536 + b[2] * 256 + b[3]
        IN  <<B64Chr(n \div 262144), B64Chr((n \div 4096) % 64),
              B64Chr((n \div 64) % 64), B64Chr(n % 64)>>
            \o B64Encode(SubSeq(b, 4, Len(b)))

\* base64.b64decode(s) returns: s is a str of whole four-character groups,
\* padded with "=" in the last group only (None raises TypeError, a broken
\* group binascii.Error)
B64Valid(s) ==
    /\ s # None
    /\ Len(s) % 4 = 0
    /\ \A i \in 1..Len(s) :
          \/ IsB64Char(s[i])
          \/ /\ s[i] = "="
             /\ i > Len(s) - 2
             /\ i > 2
             /\ \A j \in i..Len(s) : s[j] = "="

RECURSIVE B64Decode(_)
\* base64.b64decode(s) for B64Valid(s)
B64Decode(s) ==
    IF Len(s) = 0 THEN <<>>
    ELSE
        LET a == B64Index(s[1])
            b == B64Index(s[2])
            rest == SubSeq(s, 5, Len(s))
        IN  IF s[3] = "=" THEN <<(a * 4) + (b \div 16)>>
            ELSE IF s[4] = "=" THEN
                LET c == B64Index(s[3])
                IN  <<(a * 4) + (b \div 16), ((b % 16) * 16) + (c \div 4)>>
            ELSE
                LET c == B64Index(s[3])
                    d == B64Index(s[4])
                IN  <<(a * 4) + (b \div 16), ((b % 16) * 16) + (c \div 4),
                      ((c % 4) * 64) + d>> \o B64Decode(rest)

RECURSIVE Utf16Encode(_)
\* text.encode("utf_16_le"), for text in the Basic Multilingual Plane
Utf16Encode(text) ==
    IF text = <<>> THEN <<>>
    ELSE <<Ord(Head(text)) % 256, Ord(Head(text)) \div 256>>
         \o Utf16Encode(Tail(text))

\* b.decode("utf_16_le") returns: whole code units (an odd number of bytes
\* raises UnicodeDecodeError), each a character of the model
Utf16Valid(b) ==
    /\ Len(b) % 2 = 0
    /\ \A i \in 1..(Len(b) \div 2) : IsChr(b[2 * i - 1] + 256 * b[2 * i])

\* b.decode("utf_16_le") for Utf16Valid(b)
Utf16Decode(b) ==
    [i \in 1..(Len(b) \div 2) |-> Chr(b[2 * i - 1] + 256 * b[2 * i])]

-----------------------------------------------------------------------------
(* Strings and element trees *)

RECURSIVE StrLess(_, _)
\* a < b for two str: by code point, a proper prefix first
StrLess(a, b) ==
    IF b = <<>> THEN FALSE
    ELSE IF a = <<>> THEN TRUE
    ELSE IF Head(a) = Head(b) THEN StrLess(Tail(a), Tail(b))
    ELSE Ord(Head(a)) < Ord(Head(b))

RECURSIVE Insert(_, _)
Insert(x, sorted) ==
    IF sorted = <<>> THEN <<x>>
    ELSE IF StrLess(x, Head(sorted)) THEN <<x>> \o sorted
    ELSE <<Head(sorted)>> \o Insert(x, Tail(sorted))

RECURSIVE Sorted(_)
\* sorted(l) for a list of str
Sorted(l) == IF l = <<>> THEN <<>> ELSE Insert(l[Len(l)], Sorted(SubSeq(l, 1, Len(l) - 1)))

RECURSIVE Join(_, _)
\* sep.join(l)
Join(l, sep) ==
    IF l = <<>> THEN <<>>
    ELSE IF Len(l) = 1 THEN l[1]
    ELSE l[1] \o <<sep>> \o Join(Tail(l), sep)

RECURSIVE Split(_, _)
\* s.split(sep), sep one character
Split(s, sep) ==
    IF \A i \in 1..Len(s) : s[i] # sep THEN <<s>>
    ELSE LET k == CHOOSE i \in 1..Len(s) :
                      /\ s[i] = sep
                      /\ \A j \in 1..(i - 1) : s[j] # sep
         IN  <<SubSeq(s, 1, k - 1)>> \o Split(SubSeq(s, k + 1, Len(s)), sep)

RECURSIVE Flatten(_)
Flatten(ll) == IF ll = <<>> THEN <<>> ELSE Head(ll) \o Flatten(Tail(ll))

Map(l, F(_)) == [i \in 1..Len(l) |-> F(l[i])]

\* The text ET.parse gives an element that ElementTree.write serialised with
\* text t: an element whose text is "" or None is written <tag />, and read
\* back with text None
XmlText(t) == IF t = <<>> THEN None ELSE t

\* An element with attributes (the Android documents)
AElement(tag, attrib, children) ==
    [tag |-> tag, attrib |-> attrib, children |-> children]

\* elem(tag, text), with children appended, as the written file holds it
TElement(tag, text, children) ==
    [tag |-> tag, text |-> XmlText(text), children |-> children]

\* e.get(key)
Get(e, key) == IF key \in DOMAIN e.attrib THEN e.attrib[key] ELSE None

\* list(e.iterfind(tag))
IterFind(e, tag) == SelectSeq(e.children, LAMBDA c : c.tag = tag)

\* list(e.iterfind("t1/t2"))
IterFind2(e, t1, t2) == Flatten(Map(IterFind(e, t1), LAMBDA c : IterFind(c, t2)))

\* e.find(tag), when there is one
Find(e, tag) == IterFind(e, tag)[1]

RECURSIVE CannotSerialize(_)
\* ElementTree.write raises TypeError ("cannot serialize None") on an
\* attribute whose value is None, in e or below it
CannotSerialize(e) ==
    \/ \E k \in DOMAIN e.attrib : e.attrib[k] = None
    \/ \E i \in 1..Len(e.children) : CannotSerialize(e.children[i])

-----------------------------------------------------------------------------
(* Message *)

Message(timestamp, timestamp_ns, sender, recipients, body, is_read, attachments) ==
    [timestamp |-> timestamp, timestamp_ns |-> timestamp_ns, sender |-> sender,
     recipients |-> recipients, body |-> body, is_read |-> is_read,
     attachments |-> attachments]

\* What a read or a write gives: error is "none" and out the result, or error
\* names the exception raised and nothing is returned; no complete file is
\* written either (an exception of ElementTree.write leaves a truncated one)
Return(out) == [error |-> "none", out |-> out]

Raise(exception) == [error |-> exception, out |-> <<>>]

-----------------------------------------------------------------------------
(* Android *)

RECEIVED == <<"1">>

SENT == <<"2">>

TO == <<"1", "5", "1">>

FROM == <<"1", "3", "7">>

UTF_8 == <<"1", "0", "6">>

\* get_attachments that looks for the text attribute first
AndroidGetAttachmentsByText(mms) ==
    Map(IterFind2(mms, "parts", "part"),
        LAMBDA part :
            IF Get(part, "text") # None
            THEN [content_type |-> Get(part, "ct"), text |-> Get(part, "text")]
            ELSE [content_type |-> Get(part, "ct"), data_base64 |-> Get(part, "data")])

\* Android.read.get_attachments
AndroidGetAttachments(mms) ==
    Map(IterFind2(mms, "parts", "part"),
        LAMBDA part :
            IF Get(part, "data") # None
            THEN [content_type |-> Get(part, "ct"), data_base64 |-> Get(part, "data")]
            ELSE [content_type |-> Get(part, "ct"), text |-> Get(part, "text")])

\* from_sms without the test of type: the address is always the sender
from_sms_untyped(sms) ==
    Message(AndroidTimestamp(BigOfStr(Get(sms, "date"))),
            AndroidTimestampNs(BigOfStr(Get(sms, "date"))),
            Get(sms, "address"),
            <<>>,
            Get(sms, "body"),
            Get(sms, "read") = <<"1">>,
            <<>>)

\* Android.read.from_sms
from_sms(sms) ==
    Message(AndroidTimestamp(BigOfStr(Get(sms, "date"))),
            AndroidTimestampNs(BigOfStr(Get(sms, "date"))),
            IF Get(sms, "type") = RECEIVED THEN Get(sms, "address") ELSE None,
            IF Get(sms, "type") = SENT THEN <<Get(sms, "address")>> ELSE <<>>,
            Get(sms, "body"),
            Get(sms, "read") = <<"1">>,
            <<>>)

\* addrs/addr: every addr child, whatever its type
AllAddrs(mms, type) == IterFind2(mms, "addrs", "addr")

\* addrs/addr[@type='...']
AddrsOfType(mms, type) ==
    SelectSeq(IterFind2(mms, "addrs", "addr"), LAMBDA a : Get(a, "type") = type)

\* the conversation as written, not normalised
ConRaw(mms) ==
    LET parts == Split(Get(mms, "address"), "~")
    IN  {parts[i] : i \in 1..Len(parts)}

\* everyone in the conversation: {norm(addr) for addr in address.split("~")}
Con(mms) ==
    LET parts == Split(Get(mms, "address"), "~")
    IN  {norm(parts[i]) : i \in 1..Len(parts)}

\* from_mms without the test of msg_box: the from-addr, when there is one,
\* is the sender
from_mms_ungated(mms) ==
    Message(AndroidTimestamp(BigOfStr(Get(mms, "date"))),
            AndroidTimestampNs(BigOfStr(Get(mms, "date"))),
            IF AddrsOfType(mms, FROM) # <<>>
            THEN Get(AddrsOfType(mms, FROM)[1], "address")
            ELSE None,
            Map(SelectSeq(AddrsOfType(mms, TO),
                          LAMBDA a : norm(Get(a, "address")) \in Con(mms)),
                LAMBDA a : Get(a, "address")),
            None,
            Get(mms, "read") = <<"1">>,
            AndroidGetAttachments(mms))

\* Android.read.from_mms
from_mms(mms) ==
    Message(AndroidTimestamp(BigOfStr(Get(mms, "date"))),
            AndroidTimestampNs(BigOfStr(Get(mms, "date"))),
            IF Get(mms, "msg_box") = RECEIVED
            THEN Get(AddrsOfType(mms, FROM)[1], "address")
            ELSE None,
            Map(SelectSeq(AddrsOfType(mms, TO),
                          LAMBDA a : norm(Get(a, "address")) \in Con(mms)),
                LAMBDA a : Get(a, "address")),
            None,
            Get(mms, "read") = <<"1">>,
            AndroidGetAttachments(mms))

\* from_mms raises: mms.find(...) is None when a received mms has no from-addr
from_mms_raises(mms) ==
    Get(mms, "msg_box") = RECEIVED /\ AddrsOfType(mms, FROM) = <<>>

\* Android.read
AndroidRead(file) ==
    IF \E i \in 1..Len(file.children) :
          file.children[i].tag # "sms" /\ from_mms_raises(file.children[i])
    THEN Raise("AttributeError")
    ELSE Return(Map(file.children,
                    LAMBDA msg : IF msg.tag = "sms" THEN from_sms(msg) ELSE from_mms(msg)))

\* Android.write.addr
MakeAddr(addr_type, address) ==
    AElement("addr", [charset |-> UTF_8, address |-> address, type |-> addr_type], <<>>)

\* the part element of one attachment
MakePart(attachment) ==
    IF "text" \in DOMAIN attachment
    THEN AElement("part", [chset |-> UTF_8, ct |-> attachment.content_type,
                           text |-> attachment.text], <<>>)
    ELSE AElement("part", [chset |-> UTF_8, ct |-> attachment.content_type,
                           data |-> attachment.data_base64], <<>>)

\* the mms element with the to-addr of the owner after those of the recipients
MakeMmsOwnerLast(message, owner) ==
    AElement("mms",
        [m_type |-> IF message.sender # None THEN <<"1", "3", "2">>
                    ELSE <<"1", "2", "8">>,
         msg_box |-> IF message.sender # None THEN RECEIVED ELSE SENT,
         date |-> BigStr(AndroidTimestampMs(message.timestamp, message.timestamp_ns)),
         address |-> Join(Sorted(message.recipients
                                 \o (IF message.sender # None
                                     THEN <<message.sender>> ELSE <<>>)), "~"),
         read |-> IF message.is_read THEN <<"1">> ELSE <<"0">>],
        <<AElement("parts", <<>>, Map(message.attachments, MakePart)),
          AElement("addrs", <<>>,
              (IF message.sender # None
               THEN <<MakeAddr(FROM, message.sender)>>
               ELSE <<MakeAddr(FROM, owner)>>)
              \o Map(message.recipients, LAMBDA recipient : MakeAddr(TO, recipient))
              \o (IF message.sender # None THEN <<MakeAddr(TO, owner)>> ELSE <<>>))>>)

\* the mms element of a message with attachments
MakeMms(message, owner) ==
    AElement("mms",
        [m_type |-> IF message.sender # None THEN <<"1", "3", "2">>
                    ELSE <<"1", "2", "8">>,
         msg_box |-> IF message.sender # None THEN RECEIVED ELSE SENT,
         date |-> BigStr(AndroidTimestampMs(message.timestamp, message.timestamp_ns)),
         address |-> Join(Sorted(message.recipients
                                 \o (IF message.sender # None
                                     THEN <<message.sender>> ELSE <<>>)), "~"),
         read |-> IF message.is_read THEN <<"1">> ELSE <<"0">>],
        <<AElement("parts", <<>>, Map(message.attachments, MakePart)),
          AElement("addrs", <<>>,
              (IF message.sender # None
               THEN <<MakeAddr(FROM, message.sender), MakeAddr(TO, owner)>>
               ELSE <<MakeAddr(FROM, owner)>>)
              \o Map(message.recipients, LAMBDA recipient : MakeAddr(TO, recipient)))>>)

\* the sms element of a message without attachments
MakeSms(message) ==
    AElement("sms",
        [date |-> BigStr(AndroidTimestampMs(message.timestamp, message.timestamp_ns)),
         address |-> Or(message.sender, message.recipients[1]),
         type |-> IF message.sender # None THEN RECEIVED ELSE SENT,
         body |-> Or(message.body, <<>>),
         read |-> IF message.is_read THEN <<"1">> ELSE <<"0">>],
        <<>>)

\* message.sender or message.recipients[0] raises IndexError
NoAddress(message) ==
    /\ message.attachments = <<>>
    /\ Or(message.sender, None) = None
    /\ message.recipients = <<>>

\* the children appended to smses by the loop over messages
AndroidChildren(msgs, owner) ==
    Map(msgs, LAMBDA message :
                 IF message.attachments # <<>> THEN MakeMms(message, owner)
                 ELSE MakeSms(message))

\* the count of the sms children only
AndroidCountSms(children) == NatStr(Len(SelectSeq(children, LAMBDA c : c.tag = "sms")))

\* str(len(smses)) after the loop
AndroidCount(children) == NatStr(Len(children))

\* write that looks kwargs["you"] up only when a message has attachments
AndroidWriteLazy(msgs, kw) ==
    IF (\E i \in 1..Len(msgs) : msgs[i].attachments # <<>>) /\ "you" \notin DOMAIN kw
    THEN Raise("TypeError")
    ELSE IF \E i \in 1..Len(msgs) : NoAddress(msgs[i]) THEN Raise("IndexError")
    ELSE LET children == AndroidChildren(msgs, IF "you" \in DOMAIN kw THEN kw.you ELSE None)
         IN  Return(AElement("smses", [count |-> AndroidCount(children)], children))

\* write that leaves out the messages without an address
AndroidWriteSkipping(msgs, kw) ==
    IF "you" \notin DOMAIN kw THEN Raise("TypeError")
    ELSE LET children == AndroidChildren(SelectSeq(msgs, LAMBDA m : ~NoAddress(m)), kw.you)
         IN  Return(AElement("smses", [count |-> AndroidCount(children)], children))

\* Android.write
AndroidWrite(msgs, kw) ==
    IF "you" \notin DOMAIN kw THEN Raise("TypeError")
    ELSE IF \E i \in 1..Len(msgs) : NoAddress(msgs[i]) THEN Raise("IndexError")
    ELSE LET children == AndroidChildren(msgs, kw.you)
             smses == AElement("smses", [count |-> AndroidCount(children)], children)
         IN  IF CannotSerialize(smses) THEN Raise("TypeError") ELSE Return(smses)

-----------------------------------------------------------------------------
(* Windows10 *)

TextPlain == <<"t", "e", "x", "t", "/", "p", "l", "a", "i", "n">>

ApplicationSmil ==
    <<"a", "p", "p", "l", "i", "c", "a", "t", "i", "o", "n", "/", "s", "m", "i", "l">>

True == <<"t", "r", "u", "e">>

False == <<"f", "a", "l", "s", "e">>

\* the content types whose payload is base64 of UTF-16LE text
Utf16Types == {TextPlain, ApplicationSmil}

\* Windows10.write.encode_text
encode_text(text) == B64Encode(Utf16Encode(text))

\* get_attachments that takes for text whatever payload decodes as UTF-16LE
Win10AttachmentSniffing(att) ==
    LET content_type == Find(att, "AttachmentContentType").text
        data_base64 == Find(att, "AttachmentDataBase64String").text
    IN  IF data_base64 # None /\ B64Valid(data_base64) /\ Utf16Valid(B64Decode(data_base64))
        THEN [content_type |-> content_type,
              text |-> Utf16Decode(B64Decode(data_base64))]
        ELSE [content_type |-> content_type, data_base64 |-> data_base64]

\* Windows10.read.get_attachments: one MessageAttachment
Win10Attachment(att) ==
    LET content_type == Find(att, "AttachmentContentType").text
        data_base64 == Find(att, "AttachmentDataBase64String").text
    IN  IF content_type \in Utf16Types
        THEN [content_type |-> content_type,
              text |-> Utf16Decode(B64Decode(data_base64))]
        ELSE [content_type |-> content_type, data_base64 |-> data_base64]

\* the exception get_attachments raises on one MessageAttachment, or "none"
Win10AttachmentError(att) ==
    LET content_type == Find(att, "AttachmentContentType").text
        data_base64 == Find(att, "AttachmentDataBase64String").text
    IN  IF content_type \notin Utf16Types THEN "none"
        ELSE IF data_base64 = None THEN "TypeError"
        ELSE IF ~B64Valid(data_base64) THEN "binascii.Error"
        ELSE IF ~Utf16Valid(B64Decode(data_base64)) THEN "UnicodeDecodeError"
        ELSE "none"

\* Windows10.read.get_attachments
Win10GetAttachments(msg) ==
    Map(IterFind2(msg, "Attachments", "MessageAttachment"), Win10Attachment)

\* Windows10.read: one Message element
Win10Message(msg) ==
    Message(Win10Timestamp(BigOfStr(Find(msg, "LocalTimestamp").text)),
            Win10TimestampNs(BigOfStr(Find(msg, "LocalTimestamp").text)),
            Find(msg, "Sender").text,
            Map(IterFind2(msg, "Recepients", "string"), LAMBDA x : x.text),
            Find(msg, "Body").text,
            Find(msg, "IsRead").text = True,
            Win10GetAttachments(msg))

\* Windows10.read
Win10Read(file) ==
    LET atts == Flatten(Map(IterFind(file, "Message"),
                            LAMBDA msg : IterFind2(msg, "Attachments", "MessageAttachment")))
        bad == SelectSeq(atts, LAMBDA att : Win10AttachmentError(att) # "none")
    IN  IF bad # <<>> THEN Raise(Win10AttachmentError(bad[1]))
        ELSE Return(Map(IterFind(file, "Message"), Win10Message))

\* the MessageAttachment element of one attachment
MakeMessageAttachment(attachment) ==
    LET data_base64 == IF "data_base64" \in DOMAIN attachment
                       THEN attachment.data_base64
                       ELSE encode_text(attachment.text)
    IN  TElement("MessageAttachment", None,
            <<TElement("AttachmentContentType", attachment.content_type, <<>>),
              TElement("AttachmentDataBase64String", data_base64, <<>>)>>)

\* the Message element of one message
MakeMessage(message) ==
    TElement("Message", None,
        <<TElement("Recepients", None,
              Map(message.recipients, LAMBDA recipient : TElement("string", recipient, <<>>))),
          TElement("Body", Or(message.body, <<>>), <<>>),
          TElement("IsIncoming", IF message.sender # None THEN True ELSE False, <<>>),
          TElement("IsRead", IF message.is_read THEN True ELSE False, <<>>),
          TElement("Attachments", None, Map(message.attachments, MakeMessageAttachment)),
          TElement("LocalTimestamp",
              BigStr(Win10Ticks(message.timestamp, message.timestamp_ns)), <<>>),
          TElement("Sender", Or(message.sender, <<>>), <<>>)>>)

\* encode_text(None) raises AttributeError: None has no encode
NoText(attachment) == "data_base64" \notin DOMAIN attachment /\ attachment.text = None

\* Windows10.write
Win10Write(msgs, kw) ==
    IF \E i \in 1..Len(msgs) :
          \E j \in 1..Len(msgs[i].attachments) : NoText(msgs[i].attachments[j])
    THEN Raise("AttributeError")
    ELSE Return(TElement("ArrayOfMessage", None, Map(msgs, MakeMessage)))

-----------------------------------------------------------------------------
(* The inputs of the conversions *)

\* the sequences over S of length at most n
SeqsUpTo(S, n) == UNION {[1..k -> S] : k \in 0..n}

Alice == <<"1", "2">>

Bob == <<"2", "1">>

ShortCode == <<"a">>

\* an owner phone no participant has, and one that norm maps to Alice's
Owner == <<"9">>

AliceDialled == <<"1", "-", "2">>

Hi == <<"h", "i">>

ImageJpeg == <<"i", "m", "a", "g", "e", "/", "j", "p", "e", "g">>

\* base64 of b"foo", three bytes: not UTF-16LE
Foo64 == <<"Z", "m", "9", "v">>

\* 2023-11-14T22:13:20Z
T2023 == [hi |-> 1, lo |-> 700000000]

\* whole milliseconds; whole ticks of 100 ns; neither
NsSamples == {0, 123456700, 123456789}

SenderSamples == {None, Alice}

RecipientSamples == SeqsUpTo({Bob, ShortCode}, MaxRecipients)

BodySamples == {None, <<>>, Hi}

AttachmentSamples ==
    {[content_type |-> TextPlain, text |-> Hi],
     [content_type |-> ImageJpeg, data_base64 |-> Foo64],
     [content_type |-> TextPlain, text |-> <<>>],
     [content_type |-> ImageJpeg, text |-> Hi],
     [content_type |-> TextPlain, data_base64 |-> Foo64],
     [content_type |-> ApplicationSmil, data_base64 |-> encode_text(Hi)]}

\* one message, every field varied, with at most one attachment
AllMessages ==
    {Message(T2023, ns, sender, recipients, body, is_read, attachments) :
        ns \in NsSamples, sender \in SenderSamples, recipients \in RecipientSamples,
        body \in BodySamples, is_read \in BOOLEAN,
        attachments \in {<<>>} \cup {<<a>> : a \in AttachmentSamples}}

\* one message with several attachments
ManyAttachments ==
    {Message(T2023, 0, sender, <<Bob>>, None, TRUE, attachments) :
        sender \in SenderSamples,
        attachments \in SeqsUpTo(AttachmentSamples, MaxAttachments)}

\* an incoming and an outgoing SMS, an incoming and an outgoing MMS
SampleMessages ==
    {Message(T2023, 0, Alice, <<>>, Hi, TRUE, <<>>),
     Message(T2023, 123000000, None, <<Bob>>, <<>>, FALSE, <<>>),
     Message(T2023, 0, Alice, <<ShortCode, Bob>>, None, FALSE,
             <<[content_type |-> TextPlain, text |-> Hi]>>),
     Message(T2023, 0, None, <<Bob>>, None, TRUE,
             <<[content_type |-> ImageJpeg, data_base64 |-> Foo64]>>)}

\* a message without attachments, sender or recipients
Orphan == Message(T2023, 0, None, <<>>, Hi, FALSE, <<>>)

\* Orphan before and after a message that has an address
WithOrphan == {<<m, Orphan>> : m \in SampleMessages} \cup {<<Orphan, m>> : m \in SampleMessages}

MessageLists ==
    {<<m>> : m \in AllMessages \cup ManyAttachments}
    \cup SeqsUpTo(SampleMessages, MaxMsgs)
    \cup WithOrphan

\* write(file, messages, you=...) and write(file, messages)
KwargsSamples == {[you |-> Owner], [you |-> AliceDialled], <<>>}

Zero == BigOfInt(0)

-----------------------------------------------------------------------------
(* Conversions: write a Message list to a platform's file, read it back,   *)
(* write what was read                                                     *)

\* the Message list the next write is given
Current == IF ops = <<>> THEN messages ELSE vals[Len(vals)]

\* the file the next read is given
File == vals[Len(vals)]

Do(op, result) ==
    /\ ops' = Append(ops, op)
    /\ IF result.error = "none"
       THEN vals' = Append(vals, result.out) /\ status' = "ok"
       ELSE vals' = vals /\ status' = result.error
    /\ UNCHANGED <<messages, kwargs, addr, once, twice, secs, nanos, wire, back, rewire,
                   do_norm, pc>>

CanWrite ==
    /\ pc = "convert"
    /\ status = "ok"
    /\ Len(ops) < MaxOps
    /\ IF ops = <<>> THEN TRUE
       ELSE ops[Len(ops)] \in {"Android.read", "Windows10.read"}

CanRead(written) ==
    /\ pc = "convert"
    /\ status = "ok"
    /\ Len(ops) < MaxOps
    /\ ops # <<>>
    /\ ops[Len(ops)] = written

WriteAndroid == CanWrite /\ Do("Android.write", AndroidWrite(Current, kwargs))

ReadAndroid == CanRead("Android.write") /\ Do("Android.read", AndroidRead(File))

WriteWin10 == CanWrite /\ Do("Windows10.write", Win10Write(Current, kwargs))

ReadWin10 == CanRead("Windows10.write") /\ Do("Windows10.read", Win10Read(File))

NoConversion ==
    /\ messages = <<>>
    /\ kwargs = <<>>
    /\ ops = <<>>
    /\ vals = <<>>
    /\ status = "ok"
    /\ do_norm = FALSE

NoNorm == addr = None /\ once = None /\ twice = None

NoCodec ==
    secs = Zero /\ nanos = 0 /\ wire = Zero /\ back = <<Zero, 0>> /\ rewire = Zero

Init ==
    /\ pc = "convert"
    /\ messages \in MessageLists
    /\ kwargs \in KwargsSamples
    /\ ops = <<>>
    /\ vals = <<>>
    /\ status = "ok"
    /\ do_norm = FALSE
    /\ NoNorm
    /\ NoCodec

Next == WriteAndroid \/ ReadAndroid \/ WriteWin10 \/ ReadWin10

Spec == Init /\ [][Next]_vars

-----------------------------------------------------------------------------
(* Backup files that come from a phone rather than from write: read one,   *)
(* then write what was read                                                *)

\* codes that Android uses and convert.py does not name: the address role
\* CC, the message box DRAFT
CC == <<"1", "3", "0">>

DRAFT == <<"3">>

TextPlainUtf8 ==
    TextPlain \o <<";", " ", "c", "h", "a", "r", "s", "e", "t", "=", "u", "t", "f", "-", "8">>

AddrSamples ==
    {MakeAddr(FROM, Alice), MakeAddr(FROM, Owner), MakeAddr(TO, Owner),
     MakeAddr(TO, Bob), MakeAddr(TO, AliceDialled), MakeAddr(CC, ShortCode)}

\* a part with text, with data, with text where data is usual, with both
\* and with neither
PartSamples ==
    {AElement("part", [chset |-> UTF_8, ct |-> TextPlain, text |-> Hi], <<>>),
     AElement("part", [chset |-> UTF_8, ct |-> ImageJpeg, data |-> Foo64], <<>>),
     AElement("part", [chset |-> UTF_8, ct |-> ImageJpeg, text |-> Hi], <<>>),
     AElement("part", [chset |-> UTF_8, ct |-> TextPlain, data |-> Foo64, text |-> Hi], <<>>),
     AElement("part", [chset |-> UTF_8, ct |-> ImageJpeg], <<>>)}

\* an mms element as a backup holds it
MmsElement(msg_box, address, parts, addrs) ==
    AElement("mms",
        [m_type |-> IF msg_box = RECEIVED THEN <<"1", "3", "2">> ELSE <<"1", "2", "8">>,
         msg_box |-> msg_box,
         date |-> <<"1", "7", "0", "0", "0", "0", "0", "0", "0", "0", "1", "2", "3">>,
         address |-> address,
         read |-> <<"1">>],
        <<AElement("parts", <<>>, parts), AElement("addrs", <<>>, addrs)>>)

\* an sms element as a backup holds it
SmsElement(type) ==
    AElement("sms",
        [date |-> <<"1", "7", "0", "0", "0", "0", "0", "0", "0", "0", "1", "2", "3">>,
         address |-> Alice, type |-> type, body |-> Hi, read |-> <<"0">>],
        <<>>)

TextPart == AElement("part", [chset |-> UTF_8, ct |-> TextPlain, text |-> Hi], <<>>)

\* mms elements with every message box, a roster of two and one of a dialled
\* number, and every short list of addr children; the group message of roster Alice~ShortCode that the owner
\* sent or received; mms elements with every short list of parts
MmsSamples ==
    {MmsElement(msg_box, address, <<TextPart>>, addrs) :
        msg_box \in {RECEIVED, SENT, DRAFT},
        address \in {Join(<<Alice, Bob>>, "~"), AliceDialled},
        addrs \in SeqsUpTo(AddrSamples, MaxRecipients)}
    \cup {MmsElement(msg_box, Join(<<Alice, ShortCode>>, "~"), <<TextPart>>,
                     <<MakeAddr(FROM, Bob), MakeAddr(TO, Alice), MakeAddr(TO, Owner),
                       MakeAddr(TO, ShortCode)>>) : msg_box \in {RECEIVED, SENT}}
    \cup {MmsElement(SENT, Bob, parts, <<MakeAddr(FROM, Owner), MakeAddr(TO, Bob)>>) :
             parts \in SeqsUpTo(PartSamples, MaxAttachments)}

SmsSamples == {SmsElement(type) : type \in {RECEIVED, SENT, DRAFT}}

\* the smses root of a backup
Smses(children) == AElement("smses", [count |-> NatStr(Len(children))], children)

AndroidFiles ==
    {Smses(<<e>>) : e \in MmsSamples \cup SmsSamples}
    \cup {Smses(<<a, b>>) : a \in SmsSamples, b \in SmsSamples}

\* a MessageAttachment element as a backup holds it
AttachmentElement(content_type, data_base64) ==
    TElement("MessageAttachment", None,
        <<TElement("AttachmentContentType", content_type, <<>>),
          TElement("AttachmentDataBase64String", data_base64, <<>>)>>)

\* every content type with base64 of UTF-16LE text, with base64 of three
\* bytes, and with no payload
AttachmentElements ==
    {AttachmentElement(content_type, data_base64) :
        content_type \in {TextPlain, ApplicationSmil, ImageJpeg, TextPlainUtf8},
        data_base64 \in {encode_text(Hi), Foo64, <<>>}}

\* a Message element as a backup holds it
MessageElement(attachments) ==
    TElement("Message", None,
        <<TElement("Recepients", None, <<TElement("string", Bob, <<>>)>>),
          TElement("Body", <<>>, <<>>),
          TElement("IsIncoming", True, <<>>),
          TElement("IsRead", True, <<>>),
          TElement("Attachments", None, attachments),
          TElement("LocalTimestamp", BigStr(Win10Ticks(T2023, 0)), <<>>),
          TElement("Sender", Alice, <<>>)>>)

Win10Files ==
    {TElement("ArrayOfMessage", None, <<MessageElement(attachments)>>) :
        attachments \in SeqsUpTo(AttachmentElements, MaxAttachments)}

\* the file is on disk and nothing else has happened
Fresh == pc = "file" /\ status = "ok" /\ ops = <<"file">>

\* the file has been read
Loaded == pc = "file" /\ status = "ok" /\ Len(ops) = 2

ReadAndroidFile ==
    Fresh /\ vals[1].tag = "smses" /\ Do("Android.read", AndroidRead(File))

ReadWin10File ==
    Fresh /\ vals[1].tag = "ArrayOfMessage" /\ Do("Windows10.read", Win10Read(File))

RewriteAndroid == Loaded /\ Do("Android.write", AndroidWrite(File, kwargs))

RewriteWin10 == Loaded /\ Do("Windows10.write", Win10Write(File, kwargs))

FileInit ==
    /\ pc = "file"
    /\ messages = <<>>
    /\ kwargs \in KwargsSamples
    /\ ops = <<"file">>
    /\ vals \in {<<file>> : file \in AndroidFiles \cup Win10Files}
    /\ status = "ok"
    /\ do_norm = FALSE
    /\ NoNorm
    /\ NoCodec

FileNext == ReadAndroidFile \/ ReadWin10File \/ RewriteAndroid \/ RewriteWin10

FileSpec == FileInit /\ [][FileNext]_vars

-----------------------------------------------------------------------------
(* textme.py: runs of main in one process.  Its Message normalises the     *)
(* addresses it is constructed with when the class attribute do_norm is    *)
(* set, and main sets that attribute from the command line.                *)

\* Message.__init__ of textme.py
MessageInit(m, flag) ==
    [m EXCEPT !.sender = IF flag THEN norm(@) ELSE @,
              !.recipients = [k \in 1..Len(@) |-> IF flag THEN norm(@[k]) ELSE @[k]]]

\* from_android of textme.py: the decoder of Android.read, with every
\* Message constructed by MessageInit
from_android(root, flag) ==
    LET read == AndroidRead(root)
    IN  IF read.error # "none" THEN read
        ELSE Return([j \in 1..Len(read.out) |-> MessageInit(read.out[j], flag)])

\* from_win10 of textme.py
from_win10(root, flag) ==
    LET read == Win10Read(root)
    IN  IF read.error # "none" THEN read
        ELSE Return([j \in 1..Len(read.out) |-> MessageInit(read.out[j], flag)])

Running == pc = "run" /\ status = "ok"

\* main, up to Message.do_norm = args.norm
Main ==
    /\ Running
    /\ \E norm_arg \in BOOLEAN : do_norm' = norm_arg
    /\ UNCHANGED <<messages, kwargs, ops, vals, status, addr, once, twice,
                   secs, nanos, wire, back, rewire, pc>>

\* a call of from_android on the file
FromAndroid ==
    /\ Running
    /\ Len(ops) <= MaxOps
    /\ vals[1].tag = "smses"
    /\ Do("from_android", from_android(vals[1], do_norm))

\* a call of from_win10 on the file
FromWin10 ==
    /\ Running
    /\ Len(ops) <= MaxOps
    /\ vals[1].tag = "ArrayOfMessage"
    /\ Do("from_win10", from_win10(vals[1], do_norm))

RunInit ==
    /\ pc = "run"
    /\ messages = <<>>
    /\ kwargs = <<>>
    /\ ops = <<"file">>
    /\ vals \in {<<file>> : file \in AndroidFiles \cup Win10Files}
    /\ status = "ok"
    /\ do_norm = FALSE
    /\ NoNorm
    /\ NoCodec

RunNext == Main \/ FromAndroid \/ FromWin10

RunSpec == RunInit /\ [][RunNext]_vars

-----------------------------------------------------------------------------
(* norm applied to an address, and again to its result *)

NormAlphabet == NormClass \cup {"a", "~"}

\* nine digits, written as a phone number is
PhoneTail == <<"(", "5", "5", "5", ")", " ", "0", "1", "0", "-", "0", "1", "9">>

ShortAddresses == SeqsUpTo(NormAlphabet, MaxAddrLen)

NormInputs == {None} \cup ShortAddresses \cup {a \o PhoneTail : a \in ShortAddresses}

NormOnce ==
    /\ pc = "norm"
    /\ once' = norm(addr)
    /\ pc' = "normed"
    /\ UNCHANGED <<messages, kwargs, ops, vals, status, addr, twice,
                   secs, nanos, wire, back, rewire, do_norm>>

NormTwice ==
    /\ pc = "normed"
    /\ twice' = norm(once)
    /\ pc' = "renormed"
    /\ UNCHANGED <<messages, kwargs, ops, vals, status, addr, once,
                   secs, nanos, wire, back, rewire, do_norm>>

NormInit ==
    /\ pc = "norm"
    /\ addr \in NormInputs
    /\ once = None
    /\ twice = None
    /\ NoConversion
    /\ NoCodec

NormNext == NormOnce \/ NormTwice

NormSpec == NormInit /\ [][NormNext]_vars

-----------------------------------------------------------------------------
(* The timestamp codecs applied to an instant, and to a platform integer *)

\* 1970-01-01, 1601-01-01 and 2023-11-14T22:13:20Z
SecBases == {Zero, BigNeg(WindowsEpochOffset), T2023}

SecSamples ==
    {BigAdd(b, BigOfInt(d)) : b \in SecBases, d \in (0 - MaxDelta)..MaxDelta}

NanoSamples ==
    {n \in {b + d : b \in {0, 100, 1000, 10^6, 5 * 10^8, 10^9},
                    d \in (0 - MaxDelta)..MaxDelta} : n >= 0 /\ n < 10^9}

\* milliseconds around the sampled seconds
MsSamples ==
    {BigAdd(BigMulPow10(s, 3), BigOfInt(d)) : s \in SecSamples, d \in (0 - MaxDelta)..MaxDelta}

Step(at, to) ==
    /\ pc = at
    /\ pc' = to
    /\ UNCHANGED <<messages, kwargs, ops, vals, status, addr, once, twice, secs, nanos,
                   do_norm>>

EncodeAndroid ==
    /\ Step("instant", "A.encoded")
    /\ wire' = AndroidTimestampMs(secs, nanos)
    /\ UNCHANGED <<back, rewire>>

DecodeAndroid ==
    /\ Step("A.encoded", "A.decoded")
    /\ back' = <<AndroidTimestamp(wire), AndroidTimestampNs(wire)>>
    /\ UNCHANGED <<wire, rewire>>

DecodeAndroidMs ==
    /\ Step("ms", "ms.decoded")
    /\ back' = <<AndroidTimestamp(wire), AndroidTimestampNs(wire)>>
    /\ UNCHANGED <<wire, rewire>>

ReencodeAndroid ==
    /\ Step("ms.decoded", "ms.reencoded")
    /\ rewire' = AndroidTimestampMs(back[1], back[2])
    /\ UNCHANGED <<wire, back>>

EncodeWin10 ==
    /\ Step("instant", "W.encoded")
    /\ wire' = Win10Ticks(secs, nanos)
    /\ UNCHANGED <<back, rewire>>

DecodeWin10 ==
    /\ Step("W.encoded", "W.decoded")
    /\ back' = <<Win10Timestamp(wire), Win10TimestampNs(wire)>>
    /\ UNCHANGED <<wire, rewire>>

TimeInit ==
    /\ NoConversion
    /\ NoNorm
    /\ back = <<Zero, 0>>
    /\ rewire = Zero
    /\ \/ pc = "instant" /\ secs \in SecSamples /\ nanos \in NanoSamples /\ wire = Zero
       \/ pc = "ms" /\ secs = Zero /\ nanos = 0 /\ wire \in MsSamples

TimeNext ==
    \/ EncodeAndroid
    \/ DecodeAndroid
    \/ DecodeAndroidMs
    \/ ReencodeAndroid
    \/ EncodeWin10
    \/ DecodeWin10

TimeSpec == TimeInit /\ [][TimeNext]_vars

-----------------------------------------------------------------------------
(* Claims about norm (checked under NormSpec) *)

\* the positions of the digits of a
DigitPositions(a) == {i \in 1..Len(a) : a[i] \in Digits}

\* the position of the k-th digit of a, counted from the end
DigitFromEnd(a, k) ==
    CHOOSE i \in DigitPositions(a) :
        Cardinality({j \in DigitPositions(a) : j > i}) = k - 1

\* C7: norm is idempotent: for every string x, and for null,
\* norm(norm(x)) = norm(x).
C7_NormIdempotent == pc = "renormed" => twice = once

\* C7 witness: norm has been applied twice to a phone number that it changed.
C7_Witness ==
    /\ pc = "renormed"
    /\ addr # None
    /\ once # addr
    /\ Len(once) = 10

\* C8: norm(null) is null; an address made only of digits, parentheses,
\* spaces, plus and hyphen becomes its digits, cut to the last 10 of them
\* (all of them when there are fewer than 10); any other address is returned
\* unchanged.
C8_NormResult ==
    pc # "norm" =>
        /\ addr = None => once = None
        /\ (addr # None /\ \A i \in 1..Len(addr) : addr[i] \in NormClass) =>
              /\ Len(once) = Min(10, Cardinality(DigitPositions(addr)))
              /\ \A k \in 1..Len(once) :
                    once[Len(once) - k + 1] = addr[DigitFromEnd(addr, k)]
        /\ (addr # None /\ \E i \in 1..Len(addr) : addr[i] \notin NormClass) =>
              once = addr

\* C8 witness: norm has been applied to a phone number of more than 10 digits
\* that also holds punctuation.
C8_Witness ==
    /\ pc = "normed"
    /\ addr # None
    /\ \A i \in 1..Len(addr) : addr[i] \in NormClass
    /\ Cardinality(DigitPositions(addr)) > 10
    /\ Len(once) = 10

-----------------------------------------------------------------------------
(* Claims about the timestamp codecs (checked under TimeSpec) *)

\* C5 as stated: decoding the ticks of (s, ns) returns exactly (s, ns), for
\* every ns with 0 <= ns < 10^9.
C5_TicksRoundTripExact == pc = "W.decoded" => back = <<secs, nanos>>

\* C5 as amended: decoding the ticks of (s, ns) returns (s, ns - ns % 100):
\* the seconds are preserved and the nanoseconds are cut to a whole number
\* of 100 ns ticks.
C5_TicksRoundTrip == pc = "W.decoded" => back = <<secs, nanos - (nanos % 100)>>

\* C5 witness: an instant before 1970 with nanoseconds that are not a whole
\* number of ticks has been encoded and decoded.
C5_Witness ==
    /\ pc = "W.decoded"
    /\ secs.hi < 0
    /\ nanos % 100 # 0

\* C6: decoding the milliseconds of (s, ns) returns (s, ns - ns % 1000000),
\* for negative s too; and every integer ms decodes to a pair that encodes
\* to ms again.
C6_MillisecondCodec ==
    /\ pc = "A.decoded" => back = <<secs, nanos - (nanos % (10^6))>>
    /\ pc = "ms.reencoded" => rewire = wire

\* C6 witness: an instant before 1970 with sub-millisecond nanoseconds has
\* been encoded and decoded.
C6_Witness ==
    /\ pc = "A.decoded"
    /\ secs.hi < 0
    /\ nanos % (10^6) # 0
    /\ nanos > 10^6

-----------------------------------------------------------------------------
(* Claims about the conversions (checked under Spec) *)

\* the first two operations were a and then b
Began(a, b) == Len(ops) >= 2 /\ ops[1] = a /\ ops[2] = b

\* the operations so far are exactly a, b, c
Did(a, b, c) == ops = <<a, b, c>>

\* m with timestamp_ns cut down to a whole multiple of unit
Truncated(m, unit) == [m EXCEPT !.timestamp_ns = @ - (@ % unit)]

Addresses(m) ==
    {m.recipients[i] : i \in 1..Len(m.recipients)}
    \cup (IF m.sender # None THEN {m.sender} ELSE {})

\* every address of m is a non-empty string without "~"
PlainAddresses(m) ==
    \A a \in Addresses(m) : a # <<>> /\ \A i \in 1..Len(a) : a[i] # "~"

\* each attachment carries a non-empty text when its content type is one of
\* the two UTF-16LE types, and a non-empty data_base64 otherwise
TaggedByType(m) ==
    \A i \in 1..Len(m.attachments) :
        LET att == m.attachments[i]
        IN  IF att.content_type \in Utf16Types
            THEN "text" \in DOMAIN att /\ att.text # <<>>
            ELSE "data_base64" \in DOMAIN att /\ att.data_base64 # <<>>

\* a message without attachments has a sender and no recipient, or no sender
\* and one recipient
SmsShaped(m) ==
    m.attachments = <<>> =>
        \/ m.sender # None /\ m.recipients = <<>>
        \/ m.sender = None /\ Len(m.recipients) = 1

\* the owner phone does not normalise to a participant of an incoming
\* message with attachments
OwnerApart(m, owner) ==
    (m.attachments # <<>> /\ m.sender # None) =>
        norm(owner) \notin {norm(a) : a \in Addresses(m)}

\* a message has a null body exactly when it has attachments
BodyXorAttachments(m) == (m.body = None) <=> (m.attachments # <<>>)

HasAddress(m) == m.sender # None \/ m.recipients # <<>>

All(P(_)) == \A i \in 1..Len(messages) : P(messages[i])

\* C1 as stated: Windows10.read of what Windows10.write produced from a
\* Message list M returns a list equal to M field for field, with no loss.
\* Stated here of the lists whose bodies are not the empty string and whose
\* attachments carry a non-empty payload of the kind their content type
\* calls for, so that only the timestamps are in question.
C1_Win10RoundTripExact ==
    (/\ Began("Windows10.write", "Windows10.read")
     /\ All(TaggedByType)
     /\ All(LAMBDA m : m.body # <<>>)) =>
        Len(vals) >= 2 /\ vals[2] = messages

\* C1 as amended: for a Message list M whose addresses are non-empty and
\* whose attachments each carry a non-empty text exactly when their content
\* type is text/plain or application/smil (a non-empty data_base64
\* otherwise), Windows10.read of the file Windows10.write wrote from M
\* returns M field for field, except that each timestamp_ns is cut down to a
\* multiple of 100 and a body that is the empty string is read back as null.
C1_Win10RoundTrip ==
    (/\ Began("Windows10.write", "Windows10.read")
     /\ All(TaggedByType)
     /\ All(PlainAddresses)) =>
        /\ Len(vals) >= 2
        /\ vals[2] = Map(messages,
                         LAMBDA m : [Truncated(m, 100) EXCEPT
                                        !.body = IF @ = <<>> THEN None ELSE @])

\* C1 witness: a message with a text attachment, recipients and nanoseconds
\* that are not whole ticks has been written and read back.
C1_Witness ==
    /\ ops = <<"Windows10.write", "Windows10.read">>
    /\ status = "ok"
    /\ All(TaggedByType)
    /\ \E i \in 1..Len(messages) :
          /\ messages[i].timestamp_ns % 100 # 0
          /\ messages[i].attachments # <<>>
          /\ "text" \in DOMAIN messages[i].attachments[1]
          /\ messages[i].recipients # <<>>

\* C2 as stated: for any Message list M in which every message has a sender
\* or a recipient, and any owner phone P, Android.read of what Android.write
\* produced with you=P returns M with each timestamp_ns cut down to whole
\* milliseconds.  Stated here of the lists whose messages have a null body
\* exactly when they have attachments, as the Message model requires.
C2_AndroidRoundTripAny ==
    (/\ Began("Android.write", "Android.read")
     /\ All(HasAddress)
     /\ All(BodyXorAttachments)) =>
        /\ Len(vals) >= 2
        /\ vals[2] = Map(messages, LAMBDA m : Truncated(m, 10^6))

\* C2 as amended: the same, for lists in which every message has a sender or
\* a recipient, every address is a non-empty string without "~", every
\* message without attachments has a non-null body and either a sender and no
\* recipients or no sender and exactly one recipient, every message with
\* attachments has a null body, and for an owner phone P that does not
\* normalise to the sender or a recipient of a message with attachments and
\* a sender.
C2_AndroidRoundTrip ==
    (/\ Began("Android.write", "Android.read")
     /\ All(HasAddress)
     /\ All(PlainAddresses)
     /\ All(SmsShaped)
     /\ All(BodyXorAttachments)
     /\ All(LAMBDA m : OwnerApart(m, kwargs.you))) =>
        /\ Len(vals) >= 2
        /\ vals[2] = Map(messages, LAMBDA m : Truncated(m, 10^6))

\* C2 witness: an incoming message with attachments, two recipients and
\* sub-millisecond nanoseconds has been written and read back.
C2_Witness ==
    /\ ops = <<"Android.write", "Android.read">>
    /\ status = "ok"
    /\ All(SmsShaped)
    /\ All(BodyXorAttachments)
    /\ All(LAMBDA m : OwnerApart(m, kwargs.you))
    /\ \E i \in 1..Len(messages) :
          /\ messages[i].attachments # <<>>
          /\ messages[i].sender # None
          /\ Len(messages[i].recipients) = 2
          /\ messages[i].timestamp_ns % (10^6) # 0

WholeMs(m) == m.timestamp_ns % (10^6) = 0

\* M can be encoded to both formats
Encodable == "you" \in DOMAIN kwargs /\ AndroidWrite(messages, kwargs).error = "none"

\* C3 as stated: for any Message list M of whole-millisecond timestamps with
\* format-A encoding D_A (owner P) and format-B encoding D_B, encoding to B
\* what is decoded from D_A gives D_B, and encoding to A with you=P what is
\* decoded from D_B gives D_A.  Stated here of the lists whose messages have
\* a null body exactly when they have attachments, and attachments that
\* carry a non-empty payload of the kind their content type calls for.
C3_CrossFormatAny ==
    (/\ All(WholeMs)
     /\ Encodable
     /\ All(BodyXorAttachments)
     /\ All(TaggedByType)) =>
        /\ Began("Android.write", "Android.read") => Len(vals) >= 2
        /\ Began("Windows10.write", "Windows10.read") => Len(vals) >= 2
        /\ Did("Android.write", "Android.read", "Windows10.write") =>
              Len(vals) = 3 /\ vals[3] = Win10Write(messages, kwargs).out
        /\ Did("Windows10.write", "Windows10.read", "Android.write") =>
              Len(vals) = 3 /\ vals[3] = AndroidWrite(messages, kwargs).out

\* C3 as amended: the same, for lists in which every address is a non-empty
\* string without "~", every message without attachments has either a sender
\* and no recipients or no sender and exactly one recipient, every message
\* with attachments has a null or empty body and attachments that carry a
\* non-empty text exactly when their content type is text/plain or
\* application/smil (a non-empty data_base64 otherwise), and for an owner
\* phone P that does not normalise to the sender or a recipient of a message
\* with attachments and a sender.
C3_CrossFormat ==
    (/\ All(WholeMs)
     /\ Encodable
     /\ All(PlainAddresses)
     /\ All(SmsShaped)
     /\ All(TaggedByType)
     /\ All(LAMBDA m : m.attachments # <<>> => m.body \in {None, <<>>})
     /\ All(LAMBDA m : OwnerApart(m, kwargs.you))) =>
        /\ Began("Android.write", "Android.read") => Len(vals) >= 2
        /\ Began("Windows10.write", "Windows10.read") => Len(vals) >= 2
        /\ Did("Android.write", "Android.read", "Windows10.write") =>
              Len(vals) = 3 /\ vals[3] = Win10Write(messages, kwargs).out
        /\ Did("Windows10.write", "Windows10.read", "Android.write") =>
              Len(vals) = 3 /\ vals[3] = AndroidWrite(messages, kwargs).out

\* C3 witness: an outgoing SMS and an incoming MMS with a text attachment
\* have been written to format A, read back and written to format B.
C3_Witness ==
    /\ Did("Android.write", "Android.read", "Windows10.write")
    /\ status = "ok"
    /\ All(WholeMs) /\ All(SmsShaped) /\ All(TaggedByType)
    /\ All(LAMBDA m : OwnerApart(m, kwargs.you))
    /\ \E i \in 1..Len(messages) :
          messages[i].attachments = <<>> /\ messages[i].sender = None
    /\ \E i \in 1..Len(messages) :
          /\ messages[i].attachments # <<>>
          /\ messages[i].sender # None
          /\ messages[i].body = None

\* what write(read(D)) is compared with: the first write gave D, the read
\* returned, and the second write emitted D again
Reproduces(platform_write, platform_read) ==
    /\ Began(platform_write, platform_read) => Len(vals) >= 2
    /\ Did(platform_write, platform_read, platform_write) =>
          Len(vals) = 3 /\ vals[3] = vals[1]

\* C4: for each platform and any document D its write produced from some
\* Message list (Android with a fixed you=P), read(D) returns and
\* write(read(D)) emits a document identical to D.
C4_WriteAfterRead ==
    /\ Reproduces("Android.write", "Android.read")
    /\ Reproduces("Windows10.write", "Windows10.read")

\* the Message list the i-th operation, a write, was given
Given(i) == IF i = 1 THEN messages ELSE vals[i - 1]

\* C9: in every document Android.write produces, the root's count attribute
\* is the number of its children, each an sms or an mms, and that is the
\* number of messages written, for lists of 0, 1 and more messages.
C9_CountAttribute ==
    \A i \in 1..Len(vals) :
        ops[i] = "Android.write" =>
            /\ BigOfStr(Get(vals[i], "count")) = BigOfInt(Len(vals[i].children))
            /\ Len(vals[i].children) = Len(Given(i))
            /\ \A j \in 1..Len(vals[i].children) :
                  vals[i].children[j].tag \in {"sms", "mms"}

\* C9 witness: Android.write has produced a document from a list of two or
\* more messages, an sms and an mms among them.
C9_Witness ==
    /\ ops = <<"Android.write">>
    /\ status = "ok"
    /\ Len(messages) >= 2
    /\ \E j \in 1..Len(vals[1].children) : vals[1].children[j].tag = "sms"
    /\ \E j \in 1..Len(vals[1].children) : vals[1].children[j].tag = "mms"

\* C10: every Message a decoder returns has a null body exactly when its
\* attachments are non-empty, and a present body (possibly empty) exactly
\* when they are empty.  Stated of the documents the encoders produce from
\* Message lists that themselves have that property.
C10_BodyXorAttachments ==
    All(BodyXorAttachments) =>
        \A i \in 1..Len(vals) :
            ops[i] \in {"Android.read", "Windows10.read"} =>
                \A j \in 1..Len(vals[i]) : BodyXorAttachments(vals[i][j])

\* C14: Android.write called without the keyword you fails with TypeError,
\* for every message list, the empty one too, and writes nothing to the
\* file.
C14_MissingYou ==
    \A i \in 1..Len(ops) :
        (ops[i] = "Android.write" /\ "you" \notin DOMAIN kwargs) =>
            /\ i = Len(ops)
            /\ status = "TypeError"
            /\ Len(vals) = i - 1

\* C14 witness: Android.write has been called with the empty list and
\* without you, and has failed.
C14_Witness ==
    /\ messages = <<>>
    /\ kwargs = <<>>
    /\ ops = <<"Android.write">>
    /\ status = "TypeError"

\* a message without attachments, sender and recipients
Addressless(m) == m.attachments = <<>> /\ m.sender = None /\ m.recipients = <<>>

\* C16: Android.write of a list that contains a message with empty
\* attachments, null sender and empty recipients fails as a whole (with
\* IndexError when you is supplied) and writes nothing to the file, whatever
\* else the list holds.
C16_AddresslessSms ==
    \A i \in 1..Len(ops) :
        (/\ ops[i] = "Android.write"
         /\ \E j \in 1..Len(Given(i)) : Addressless(Given(i)[j])) =>
            /\ i = Len(ops)
            /\ status = IF "you" \in DOMAIN kwargs THEN "IndexError" ELSE "TypeError"
            /\ Len(vals) = i - 1

\* C16 witness: Android.write has been called with you and a list of two
\* messages, the second without any address, and has failed.
C16_Witness ==
    /\ ops = <<"Android.write">>
    /\ "you" \in DOMAIN kwargs
    /\ Len(messages) = 2
    /\ ~Addressless(messages[1])
    /\ Addressless(messages[2])
    /\ status = "IndexError"

\* the <<type, address>> of the addr children of an mms element, in order
AddrPairs(mms) ==
    Map(IterFind2(mms, "addrs", "addr"), LAMBDA a : <<Get(a, "type"), Get(a, "address")>>)

\* l is in plain string order
InStringOrder(l) ==
    \A k \in 1..(Len(l) - 1) : l[k] = l[k + 1] \/ StrLess(l[k], l[k + 1])

\* a and b hold the same strings, as many times each
SameStrings(a, b) ==
    /\ Len(a) = Len(b)
    /\ \A k \in 1..Len(a) :
          Cardinality({n \in 1..Len(a) : a[n] = a[k]})
              = Cardinality({n \in 1..Len(b) : b[n] = a[k]})

\* C19: for every message with attachments Android.write emits an mms
\* element whose addr children are, in order: from sender and to you for an
\* incoming message, from you for an outgoing one, then a to addr for each
\* recipient in the message's own order; and whose address attribute is
\* the recipients plus the sender in plain string order, joined by "~".
C19_MmsAddrs ==
    \A i \in 1..Len(vals) :
        ops[i] = "Android.write" =>
            \A j \in 1..Len(Given(i)) :
                LET m == Given(i)[j]
                    mms == vals[i].children[j]
                    roster == m.recipients \o (IF m.sender # None THEN <<m.sender>> ELSE <<>>)
                IN  m.attachments # <<>> =>
                        /\ mms.tag = "mms"
                        /\ AddrPairs(mms) =
                              (IF m.sender # None
                               THEN << <<FROM, m.sender>>, <<TO, kwargs.you>> >>
                               ELSE << <<FROM, kwargs.you>> >>)
                              \o [k \in 1..Len(m.recipients) |-> <<TO, m.recipients[k]>>]
                        /\ IF roster = <<>> THEN Get(mms, "address") = <<>>
                           ELSE /\ SameStrings(Split(Get(mms, "address"), "~"), roster)
                                /\ InStringOrder(Split(Get(mms, "address"), "~"))

\* C19 witness: an incoming message with attachments whose two recipients
\* are not in string order has been written.
C19_Witness ==
    /\ ops = <<"Android.write">>
    /\ status = "ok"
    /\ \E j \in 1..Len(messages) :
          /\ messages[j].attachments # <<>>
          /\ messages[j].sender # None
          /\ Len(messages[j].recipients) = 2
          /\ StrLess(messages[j].recipients[2], messages[j].recipients[1])

-----------------------------------------------------------------------------
(* Claims about reading backup files (checked under FileSpec) *)

\* the file has been read by op, and the read returned a Message list
HasRead(op) == Len(ops) >= 2 /\ ops[2] = op /\ Len(vals) >= 2

\* the j-th element of the file and the Message read from it
Source(j) == vals[1].children[j]

Decoded(j) == vals[2][j]

\* the mms elements of the file, by position
MmsPositions == {j \in 1..Len(vals[1].children) : Source(j).tag = "mms"}

\* the addr children of mms in document order
AddrChildren(mms) == IterFind2(mms, "addrs", "addr")

\* the addresses of the addr children with a role code, in document order
AddressesOfRole(mms, role) ==
    LET at == SelectSeq(AddrChildren(mms), LAMBDA a : a.attrib.type = role)
    IN  [k \in 1..Len(at) |-> at[k].attrib.address]

\* address is, once normalised, one of the "~"-separated roster of mms
InRoster(mms, address) ==
    LET roster == Split(mms.attrib.address, "~")
    IN  \E k \in 1..Len(roster) : norm(roster[k]) = norm(address)

\* C13: the recipients read from an mms element are, in document order, the
\* addresses of its to-role addr children whose normalised address is in the
\* normalised "~"-separated address attribute; so an owner address that
\* does not normalise into that roster is never among them, and the roster
\* Alice~ShortCode with to-addrs Alice, Owner, ShortCode gives
\* [Alice, ShortCode].
C13_ParticipantFilter ==
    HasRead("Android.read") =>
        \A j \in MmsPositions :
            /\ Decoded(j).recipients =
                  SelectSeq(AddressesOfRole(Source(j), <<"1", "5", "1">>),
                            LAMBDA a : InRoster(Source(j), a))
            /\ \A k \in 1..Len(Decoded(j).recipients) :
                  InRoster(Source(j), Decoded(j).recipients[k])
            /\ (/\ Source(j).attrib.address = Join(<<Alice, ShortCode>>, "~")
                /\ AddressesOfRole(Source(j), <<"1", "5", "1">>) = <<Alice, Owner, ShortCode>>)
                   => Decoded(j).recipients = <<Alice, ShortCode>>

\* C13 witness: an mms element whose to-addrs are a dialled form of a roster
\* member and the owner, who is not in the roster, has been read.
C13_Witness ==
    /\ HasRead("Android.read")
    /\ \E j \in MmsPositions :
          /\ AddressesOfRole(Source(j), TO) = <<AliceDialled, Owner>>
          /\ Decoded(j).recipients = <<AliceDialled>>

\* C15: reading a file with an mms element that has an addr child whose
\* role code is neither "151" nor "137" fails: no Message list is returned.
C15_UnknownRole ==
    (/\ Len(ops) >= 2
     /\ ops[2] = "Android.read"
     /\ \E j \in MmsPositions :
           \E k \in 1..Len(AddrChildren(Source(j))) :
               AddrChildren(Source(j))[k].attrib.type \notin {TO, FROM}) =>
        status # "ok" /\ Len(vals) = 1

\* C18: the sender read from an mms element is the address of its first
\* from-role addr child when msg_box is "1", and null for every other
\* msg_box, also when a from-role addr child is present.
C18_SenderGating ==
    HasRead("Android.read") =>
        \A j \in MmsPositions :
            IF Source(j).attrib.msg_box = <<"1">>
            THEN Decoded(j).sender = AddressesOfRole(Source(j), <<"1", "3", "7">>)[1]
            ELSE Decoded(j).sender = None

\* C18 witness: an mms element with a from-role addr child and a msg_box
\* other than "1" has been read.
C18_Witness ==
    /\ HasRead("Android.read")
    /\ \E j \in MmsPositions :
          /\ Source(j).attrib.msg_box = DRAFT
          /\ AddressesOfRole(Source(j), FROM) # <<>>
          /\ Decoded(j).sender = None

\* the payload keys of an attachment record
PayloadKeys(attachment) == DOMAIN attachment \cap {"text", "data_base64"}

\* the MessageAttachment elements of a Message element
AttachmentChildren(msg) == IterFind2(msg, "Attachments", "MessageAttachment")

\* C12: every attachment record a decoder returns carries exactly one of the
\* keys text and data_base64: from a format-A part, data_base64 when the
\* part has a data attribute and text otherwise; from a format-B
\* attachment, text for the content types text/plain and application/smil
\* and data_base64 otherwise.
C12_OnePayloadKey ==
    /\ HasRead("Android.read") =>
          \A j \in MmsPositions :
              LET parts == IterFind2(Source(j), "parts", "part")
              IN  /\ Len(Decoded(j).attachments) = Len(parts)
                  /\ \A k \in 1..Len(parts) :
                        PayloadKeys(Decoded(j).attachments[k]) =
                            IF "data" \in DOMAIN parts[k].attrib
                            THEN {"data_base64"} ELSE {"text"}
    /\ HasRead("Windows10.read") =>
          \A j \in 1..Len(vals[1].children) :
              LET atts == AttachmentChildren(Source(j))
              IN  /\ Len(Decoded(j).attachments) = Len(atts)
                  /\ \A k \in 1..Len(atts) :
                        PayloadKeys(Decoded(j).attachments[k]) =
                            IF atts[k].children[1].text \in {TextPlain, ApplicationSmil}
                            THEN {"text"} ELSE {"data_base64"}

\* C12 witness: a part with both a data and a text attribute, and a part
\* with neither, have been read.
C12_Witness ==
    /\ HasRead("Android.read")
    /\ \E j \in MmsPositions :
          LET parts == IterFind2(Source(j), "parts", "part")
          IN  /\ \E k \in 1..Len(parts) : {"data", "text"} \subseteq DOMAIN parts[k].attrib
              /\ \E k \in 1..Len(parts) : {"data", "text"} \cap DOMAIN parts[k].attrib = {}

\* the UTF-16LE transform relates a text to a base64 payload
Transformed(text, payload) ==
    /\ payload # None
    /\ B64Valid(payload)
    /\ Utf16Valid(B64Decode(payload))
    /\ Utf16Decode(B64Decode(payload)) = text

\* the Message list has been written to format B
HasWritten(op) == Len(ops) = 3 /\ ops[3] = op /\ Len(vals) = 3

\* the text of the AttachmentDataBase64String of the k-th attachment written
\* for the j-th message
PayloadWritten(j, k) == AttachmentChildren(vals[3].children[j])[k].children[2].text

\* Windows10.read has applied the transform to the attachments of the two
\* content types and to no other
DecodesByContentType ==
    HasRead("Windows10.read") =>
        \A j \in 1..Len(vals[1].children) :
            LET atts == AttachmentChildren(Source(j))
            IN  \A k \in 1..Len(atts) :
                    LET content_type == atts[k].children[1].text
                        payload == atts[k].children[2].text
                        attachment == Decoded(j).attachments[k]
                    IN  IF content_type \in {TextPlain, ApplicationSmil}
                        THEN /\ "text" \in DOMAIN attachment
                             /\ Transformed(attachment.text, payload)
                        ELSE /\ "data_base64" \in DOMAIN attachment
                             /\ attachment.data_base64 = payload

\* C11 as stated: the UTF-16LE transform is applied to an attachment, when
\* decoding from format B and when encoding to format B, exactly when its
\* content_type is text/plain or application/smil; the base64 payload of an
\* attachment of any other content type is passed through unchanged.
C11_TransformByContentType ==
    /\ DecodesByContentType
    /\ HasWritten("Windows10.write") =>
          \A j \in 1..Len(vals[2]) :
              \A k \in 1..Len(Decoded(j).attachments) :
                  LET attachment == Decoded(j).attachments[k]
                  IN  IF attachment.content_type \in {TextPlain, ApplicationSmil}
                      THEN /\ "text" \in DOMAIN attachment
                           /\ Transformed(attachment.text, PayloadWritten(j, k))
                      ELSE /\ "data_base64" \in DOMAIN attachment
                           /\ PayloadWritten(j, k) = XmlText(attachment.data_base64)

\* C11 as amended: when decoding from format B the transform is applied
\* exactly when the content_type is text/plain or application/smil, and the
\* payload of any other content type is stored unchanged; when encoding to
\* format B the transform is applied exactly when the attachment has no
\* data_base64 key, to its text, whatever the content type, and a
\* data_base64 is written unchanged.
C11_Transform ==
    /\ DecodesByContentType
    /\ HasWritten("Windows10.write") =>
          \A j \in 1..Len(vals[2]) :
              \A k \in 1..Len(Decoded(j).attachments) :
                  LET attachment == Decoded(j).attachments[k]
                  IN  IF "data_base64" \notin DOMAIN attachment
                      THEN Transformed(attachment.text, PayloadWritten(j, k))
                      ELSE PayloadWritten(j, k) = XmlText(attachment.data_base64)

\* C11 witness: a format-B file with a text/plain and an image/jpeg
\* attachment of the same payload, base64 of UTF-16LE text, has been read and
\* written again.
C11_Witness ==
    /\ HasRead("Windows10.read")
    /\ HasWritten("Windows10.write")
    /\ \E j \in 1..Len(vals[1].children) :
          LET atts == AttachmentChildren(Source(j))
          IN  /\ Len(atts) = 2
              /\ atts[1].children[1].text = TextPlain
              /\ atts[2].children[1].text = ImageJpeg
              /\ atts[1].children[2].text = encode_text(Hi)
              /\ atts[2].children[2].text = encode_text(Hi)

\* C20: every Message list Android.read returns can be written back: each
\* message read from a file, whatever the type of its sms elements, the
\* msg_box of its mms elements and the number of their parts, has a sender or
\* a recipient, and Android.write with an owner phone completes and emits
\* one element per message, with the tag of the element it was read from.
C20_Reencodable ==
    HasRead("Android.read") =>
        /\ \A j \in 1..Len(vals[2]) : HasAddress(Decoded(j))
        /\ (Len(ops) = 3 /\ ops[3] = "Android.write" /\ "you" \in DOMAIN kwargs) =>
              /\ Len(vals) = 3
              /\ Len(vals[3].children) = Len(vals[2])
              /\ \A j \in 1..Len(vals[2]) : vals[3].children[j].tag = Source(j).tag

-----------------------------------------------------------------------------
(* Claims about runs in one process (checked under RunSpec) *)

\* C17: no state is shared between conversion runs: any two decodes of the
\* same file return equal Message lists, whatever runs, with whatever
\* normalisation setting, came before or between them in the process.
C17_NoSharedState ==
    \A i \in 2..Len(vals) : \A k \in 2..Len(vals) : vals[i] = vals[k]

====
